---- MODULE Spec2Model ----
(***************************************************************************)
(* Spotify -> Telegram last-name sync (api/sync.py, api/index.py,          *)
(* lib/storage.py, lib/telegram.py, lib/spotify.py, lib/formatting.py).    *)
(*                                                                         *)
(* Text is a sequence of one-character strings.  Time is time.time() in    *)
(* whole seconds; one invocation reads a single clock value.               *)
(***************************************************************************)
EXTENDS Integers, Sequences, FiniteSets, TLC

VARIABLES
    clock,             \* time.time()
    blob,              \* content of the blob "spotify-telegram-state.json" (no key: no blob)
    cache_data,        \* storage._cache_data (no key: None or {})
    cache_time,        \* storage._cache_time
    blob_url_cache,    \* storage._blob_url_cache is set
    remote_last_name,  \* the Telegram profile's last name
    env,               \* os.environ: which variables are set
    issued,            \* number of token pairs the Spotify token endpoint has issued
    result,            \* the dict returned by the last perform_sync
    calls,             \* external calls of the last invocation, in order
    writes,            \* sections put to the blob by the last invocation, in order
    cycles,            \* number of perform_sync invocations so far
    decision,          \* what the last invocation computed at sync.py 129-137, if it got there
    captured,          \* a sync cycle has fetched the live name and stored it as baseline
    inits,             \* number of initialize invocations so far
    last_fetch,        \* what get_current_track returned to the last invocation, if it did
    peer,              \* _cache_data, _cache_time, _blob_url_cache of a second instance
    logged,            \* every entry handed to log_error so far, newest first
    given,             \* arguments of a direct call of a lib/formatting.py function
    returned,          \* the function called with them and what it returned
    request,           \* the last HTTP request: entrypoint, CRON_SECRET, header, response
    versions           \* the records put to the blob by the last invocation, in order

vars == <<clock, blob, cache_data, cache_time, blob_url_cache, remote_last_name,
          env, issued, result, calls, writes, cycles, decision, captured, inits,
          last_fetch, peer, logged, given, returned, request, versions>>

----------------------------------------------------------------------------
(* Bounds of the model *)

MaxCycles == 2

MaxInits == 1
MaxErrors == 12

MaxTriggers == 5

Period == 60

StartTime == 1000

\* offsets from StartTime at which the scheduler may trigger
Schedule == {0, 39, 40, 50, 59, 60, 179, 180}

\* offsets around the point where a token issued at StartTime is 300 s from expiry
TokenSchedule == {0, 3299, 3300}

----------------------------------------------------------------------------
(* Program constants *)

MIN_UPDATE_INTERVAL == 180

TRACK_CHANGE_INTERVAL == 60

FLOOD_BUFFER == 10

TOKEN_REFRESH_BUFFER == 300

DEFAULT_EXPIRES_IN == 3600

CACHE_TTL == 30

ERROR_LOG_SIZE == 10

STATUS_ERRORS == 5
DEFAULT_TRUNCATE == 64

DEFAULT_FLOOD_SECONDS == 300

DEFAULT_TEMPLATE == <<"|", " ", "{artist_first}", " ", "-", " ", "{title}">>

----------------------------------------------------------------------------
(* Text helpers: str.strip, str.lower, str.split, str.startswith, re.sub *)

UpperChars == <<"A", "B", "C", "D", "E", "F", "G", "H", "I", "J", "K", "L", "M",
                "N", "O", "P", "Q", "R", "S", "T", "U", "V", "W", "X", "Y", "Z">>

LowerChars == <<"a", "b", "c", "d", "e", "f", "g", "h", "i", "j", "k", "l", "m",
                "n", "o", "p", "q", "r", "s", "t", "u", "v", "w", "x", "y", "z">>

IsSpace(c) == c = " "

LowerChar(c) ==
    IF \E i \in 1..26 : UpperChars[i] = c
    THEN LowerChars[CHOOSE i \in 1..26 : UpperChars[i] = c]
    ELSE c

Lower(s) == [i \in 1..Len(s) |-> LowerChar(s[i])]

RECURSIVE LStrip(_)
LStrip(s) == IF s # <<>> /\ IsSpace(Head(s)) THEN LStrip(Tail(s)) ELSE s

RECURSIVE RStrip(_)
RStrip(s) ==
    IF s # <<>> /\ IsSpace(s[Len(s)]) THEN RStrip(SubSeq(s, 1, Len(s) - 1)) ELSE s

Strip(s) == RStrip(LStrip(s))

StartsWith(s, p) == Len(s) >= Len(p) /\ SubSeq(s, 1, Len(p)) = p

\* s.split(",")[0]
BeforeComma(s) ==
    IF \E i \in 1..Len(s) : s[i] = ","
    THEN SubSeq(s, 1, (CHOOSE i \in 1..Len(s) :
                          s[i] = "," /\ \A j \in 1..(i - 1) : s[j] # ",") - 1)
    ELSE s

\* index after the longest run of whitespace starting at i
RECURSIVE SkipSpace(_, _)
SkipSpace(s, i) == IF i <= Len(s) /\ IsSpace(s[i]) THEN SkipSpace(s, i + 1) ELSE i

\* re.sub(r"\s*\([^)]*\)", "", s), scanning from index i
RECURSIVE StripParensFrom(_, _)
StripParensFrom(s, i) ==
    IF i > Len(s) THEN <<>>
    ELSE LET j == SkipSpace(s, i)
             opens == j <= Len(s) /\ s[j] = "("
             closes == opens /\ \E k \in (j + 1)..Len(s) : s[k] = ")"
         IN  IF closes
             THEN StripParensFrom(s, 1 + CHOOSE k \in (j + 1)..Len(s) :
                      s[k] = ")" /\ \A l \in (j + 1)..(k - 1) : s[l] # ")")
             ELSE <<s[i]>> \o StripParensFrom(s, i + 1)

StripParens(s) == StripParensFrom(s, 1)

----------------------------------------------------------------------------
(* lib/spotify.py: TrackInfo; lib/formatting.py *)

NoTrack == [present |-> FALSE, title |-> <<>>, artist |-> <<>>, album |-> <<>>]

TrackInfo(title, artist, album) ==
    [present |-> TRUE, title |-> title, artist |-> artist, album |-> album]

\* TrackInfo.__bool__, and None
TrackTruthy(track) == track.present /\ track.title # <<>> /\ track.artist # <<>>

STOPPED_KEY == <<"s", "t", "o", "p", "p", "e", "d">>

TRACK_PREFIX == <<"t", "r", "a", "c", "k", ":">>

generate_track_key(track) ==
    IF ~TrackTruthy(track) THEN STOPPED_KEY
    ELSE TRACK_PREFIX \o Lower(Strip(StripParens(track.title)))

TYLER_LOWER == <<"t", "y", "l", "e", "r", ",", " ", "t", "h", "e", " ",
                 "c", "r", "e", "a", "t", "o", "r">>

TYLER_NAME == <<"T", "y", "l", "e", "r", ",", " ", "T", "h", "e", " ",
                "C", "r", "e", "a", "t", "o", "r">>

KnownFields == {"{title}", "{artist}", "{artist_first}", "{album}"}

\* template items that str.format rejects with KeyError
UnknownFields == {"{bogus}"}

first_artist(track) ==
    LET artists_str == Strip(track.artist)
    IN  IF StartsWith(Lower(artists_str), TYLER_LOWER) THEN TYLER_NAME
        ELSE Strip(BeforeComma(artists_str))

FieldValue(item, track) ==
    CASE item = "{title}" -> Strip(StripParens(track.title))
      [] item = "{artist}" -> track.artist
      [] item = "{artist_first}" -> first_artist(track)
      [] item = "{album}" -> track.album
      [] OTHER -> <<item>>

RECURSIVE Render(_, _)
Render(template, track) ==
    IF template = <<>> THEN <<>>
    ELSE FieldValue(Head(template), track) \o Render(Tail(template), track)

Max(a, b) == IF a >= b THEN a ELSE b

ELLIPSIS == <<".", ".", ".">>

Truncate(text, truncate) ==
    IF truncate > 0 /\ Len(text) > truncate
    THEN SubSeq(text, 1, Max(0, truncate - Len(ELLIPSIS))) \o ELLIPSIS
    ELSE text

format_last_name(track, fallback, template, truncate) ==
    LET formatted ==
            IF ~TrackTruthy(track) THEN fallback
            ELSE IF \E i \in 1..Len(template) : template[i] \in UnknownFields
                 THEN Render(<<"|", " ", "{artist_first}", " ", "-", " ", "{title}">>, track)
                 ELSE Render(template, track)
    IN  Truncate(formatted, truncate)

----------------------------------------------------------------------------
(* lib/storage.py.  A store handle m is [blob, cache, ctime, url, wr]: the    *)
(* blob, _cache_data, _cache_time, whether _blob_url_cache is set, and the     *)
(* sections put so far by this invocation.  io says whether the blob service   *)
(* answers reads (load) and accepts writes (save) during this invocation.      *)

Empty == [s \in {} |-> 0]

Has(d, k) == k \in DOMAIN d

Put(d, k, v) == [s \in (DOMAIN d) \cup {k} |-> IF s = k THEN v ELSE d[s]]

\* Result [m, data, shared]: shared says that data is the object _cache_data.
load_all_data(m, now, io) ==
    IF m.cache # Empty /\ (now - m.ctime) < CACHE_TTL
    THEN [m |-> m, data |-> m.cache, shared |-> TRUE]
    ELSE IF ~io.load
    THEN [m |-> m, data |-> Empty, shared |-> FALSE]
    ELSE IF ~m.url /\ m.blob = Empty
    THEN [m |-> m, data |-> Empty, shared |-> FALSE]
    ELSE [m |-> [m EXCEPT !.url = TRUE, !.cache = m.blob, !.ctime = now],
          data |-> m.blob, shared |-> TRUE]

\* Result [m, ok].  data is what the caller passes: the object load_all_data
\* returned, already changed in place.
save_all_data(m, data, now, io) ==
    IF io.save
    THEN [m |-> [m EXCEPT !.url = TRUE, !.blob = data, !.cache = data, !.ctime = now,
                          !.vs = Append(@, data)],
          ok |-> TRUE]
    ELSE [m |-> m, ok |-> FALSE]

\* Result [m, present, value]
get_data_section(m, section, now, io) ==
    LET L == load_all_data(m, now, io)
    IN  [m |-> L.m, present |-> Has(L.data, section),
         value |-> IF Has(L.data, section) THEN L.data[section] ELSE 0]

\* data[section] = value mutates _cache_data itself when the load returned it
set_data_section(m, section, value, now, io) ==
    LET L == load_all_data(m, now, io)
        data == Put(L.data, section, value)
        m1 == IF L.shared THEN [L.m EXCEPT !.cache = data] ELSE L.m
        S == save_all_data(m1, data, now, io)
    IN  [S EXCEPT !.m.wr = IF S.ok THEN Append(m1.wr, section) ELSE m1.wr]

\* storage.py 139 left out: only the stored session counts
get_session_stored(m, environ, now, io) ==
    LET G == get_data_section(m, "telegram_session", now, io)
    IN  [m |-> G.m, session |-> IF G.present /\ G.value # "" THEN G.value ELSE ""]

\* Result [m, session]: "" stands for None
get_session(m, environ, now, io) ==
    LET G == get_data_section(m, "telegram_session", now, io)
    IN  [m |-> G.m,
         session |-> IF G.present /\ G.value # "" THEN G.value
                     ELSE IF environ.TELEGRAM_STRING_SESSION THEN "env-session" ELSE ""]

save_session(m, session, now, io) ==
    set_data_section(m, "telegram_session", session, now, io)

\* Result [m, present, value]
get_tokens(m, now, io) == get_data_section(m, "spotify_tokens", now, io)

save_tokens(m, token, now, io) ==
    set_data_section(m, "spotify_tokens",
        [access_token |-> token.access_token, refresh_token |-> token.refresh_token,
         expires_at |-> token.expires_at], now, io)

\* None, as the value of last_track_key
NoneKey == <<"<None>">>

DefaultState ==
    [original_last_name |-> <<>>, current_last_name |-> <<>>,
     last_track_key |-> NoneKey, last_update |-> 0, update_count |-> 0,
     last_sync |-> 0, status |-> "initialized"]

\* Result [m, state, alias]: alias says that state is the dict inside _cache_data
get_state(m, now, io) ==
    LET L == load_all_data(m, now, io)
    IN  IF Has(L.data, "sync_state")
        THEN [m |-> L.m, state |-> L.data["sync_state"], alias |-> L.shared]
        ELSE [m |-> L.m, state |-> DefaultState, alias |-> FALSE]

\* state[field] = value: the cached record changes with it when state is its dict
SetStateField(m, alias, field, value) ==
    IF alias /\ Has(m.cache, "sync_state")
    THEN [m EXCEPT !.cache["sync_state"][field] = value]
    ELSE m

\* the name and the key are put first, the other fields with a second put
save_state_fieldwise(m, state, alias, now, io) ==
    LET S == get_data_section(m, "sync_state", now, io)
        old == IF S.present THEN S.value ELSE DefaultState
        first == set_data_section(S.m, "sync_state",
                     [old EXCEPT !.current_last_name = state.current_last_name,
                                 !.last_track_key = state.last_track_key], now, io)
    IN  set_data_section(SetStateField(first.m, alias, "last_sync", now), "sync_state",
                         [state EXCEPT !.last_sync = now], now, io)

\* storage.py 177 left out
save_state_unstamped(m, state, alias, now, io) ==
    set_data_section(m, "sync_state", state, now, io)

\* Result [m, ok]; state['last_sync'] is set on the caller's dict
save_state(m, state, alias, now, io) ==
    set_data_section(SetStateField(m, alias, "last_sync", now), "sync_state",
                     [state EXCEPT !.last_sync = now], now, io)

\* the not-playing marker of storage.py 190 is never written
save_current_track_if_playing(m, track, now, io) ==
    IF TrackTruthy(track)
    THEN set_data_section(m, "current_track",
            [title |-> track.title, artist |-> track.artist, album |-> track.album,
             is_playing |-> TRUE, timestamp |-> now], now, io)
    ELSE [m |-> m, ok |-> TRUE]

save_current_track(m, track, now, io) ==
    set_data_section(m, "current_track",
        IF TrackTruthy(track)
        THEN [title |-> track.title, artist |-> track.artist, album |-> track.album,
              is_playing |-> TRUE, timestamp |-> now]
        ELSE [title |-> <<>>, artist |-> <<>>, album |-> <<>>,
              is_playing |-> FALSE, timestamp |-> now],
        now, io)

Take(s, n) == SubSeq(s, 1, IF Len(s) < n THEN Len(s) ELSE n)

\* Result [m, errors]
get_errors(m, now, io) ==
    LET G == get_data_section(m, "errors", now, io)
    IN  [m |-> G.m, errors |-> IF G.present THEN G.value ELSE <<>>]

\* storage.py 198-207
log_error(m, error, context, now, io) ==
    LET G == get_data_section(m, "errors", now, io)
        errors == IF G.present THEN G.value ELSE <<>>
        entry == [timestamp |-> now, error |-> error, context |-> context]
        S == set_data_section(G.m, "errors", Take(<<entry>> \o errors, ERROR_LOG_SIZE),
                              now, io)
    IN  [S EXCEPT !.m.lg = <<entry>> \o @]

\* Result [m, value]
get_flood_wait_until(m, now, io) ==
    LET G == get_data_section(m, "flood_wait_until", now, io)
    IN  [m |-> G.m, value |-> IF G.present THEN G.value ELSE 0]

set_flood_wait_until(m, until, now, io) ==
    set_data_section(m, "flood_wait_until", until, now, io)

----------------------------------------------------------------------------
(* The collaborators' answers: Spotify (lib/spotify.py), Telegram (lib/telegram.py) *)

TrackA == TrackInfo(<<"A">>, <<"X">>, <<>>)

\* same key as TrackA, another artist
TrackA2 == TrackInfo(<<"a", " ", "(", "r", ")">>, <<"Y">>, <<>>)

TrackB == TrackInfo(<<"B">>, <<"X">>, <<>>)

Tracks == {TrackA, TrackA2, TrackB}

\* what one request to the player endpoint ends in
FetchOutcomes ==
    [kind : {"playing"}, track : Tracks]
        \cup [kind : {"nothing", "failed", "unauthorized"}, track : {NoTrack}]

\* the token endpoint: a rotated refresh token, the same one, or a failure
RefreshOutcomes == {"rotated", "same", "failed"}

\* me.last_name is read, or the request raises
NameOutcomes == {"ok", "failed"}

FloodSeconds == {0, 30, 120}

\* UpdateProfileRequest: done, FloodWaitError(seconds), SessionExpiredError or
\* AuthKeyError, any other exception
UpdateOutcomes ==
    [kind : {"ok", "session", "other"}, seconds : {0}]
        \cup [kind : {"flood"}, seconds : FloodSeconds]

\* lib/spotify.py get_current_track: None unless a track is playing; 401 raises
get_current_track(outcome) ==
    [raised |-> outcome.kind = "unauthorized",
     track |-> IF outcome.kind = "playing" THEN outcome.track ELSE NoTrack]

\* spotify.py 97 always keeps the refresh token that was passed in
refresh_access_token_keeping(refresh_token, outcome, n, now) ==
    [raised |-> outcome = "failed",
     access_token |-> n + 1,
     refresh_token |-> refresh_token,
     expires_at |-> now + DEFAULT_EXPIRES_IN]

\* lib/spotify.py refresh_access_token; n is the number of pairs issued before
refresh_access_token(refresh_token, outcome, n, now) ==
    [raised |-> outcome = "failed",
     access_token |-> n + 1,
     refresh_token |-> IF outcome = "rotated" THEN n + 1 ELSE refresh_token,
     expires_at |-> now + DEFAULT_EXPIRES_IN]

\* telegram.py 116-118 left out: a session error ends like any other exception
update_last_name_safe_swallowing(outcome) ==
    CASE outcome.kind = "ok" ->
            [raised |-> FALSE, success |-> TRUE, has_wait |-> FALSE, flood_wait |-> 0]
      [] outcome.kind = "flood" ->
            [raised |-> FALSE, success |-> FALSE, has_wait |-> TRUE,
             flood_wait |-> outcome.seconds]
      [] OTHER ->
            [raised |-> FALSE, success |-> FALSE, has_wait |-> FALSE, flood_wait |-> 0]

\* lib/telegram.py update_last_name_safe: (success, flood_wait), or RuntimeError.
\* has_wait is "flood_wait is not None".
update_last_name_safe(outcome) ==
    CASE outcome.kind = "ok" ->
            [raised |-> FALSE, success |-> TRUE, has_wait |-> FALSE, flood_wait |-> 0]
      [] outcome.kind = "flood" ->
            [raised |-> FALSE, success |-> FALSE, has_wait |-> TRUE,
             flood_wait |-> outcome.seconds]
      [] outcome.kind = "session" ->
            [raised |-> TRUE, success |-> FALSE, has_wait |-> FALSE, flood_wait |-> 0]
      [] OTHER ->
            [raised |-> FALSE, success |-> FALSE, has_wait |-> FALSE, flood_wait |-> 0]

----------------------------------------------------------------------------
(* api/sync.py (api/index.py sync() is the same code) *)

\* the intervals of sync.py 44 and 47 compared with > instead of >=
should_update_strict(state, new_track_key, now, min_interval) ==
    LET last_key == state.last_track_key
        elapsed == now - state.last_update
    IN  IF last_key = NoneKey THEN TRUE
        ELSE IF last_key # new_track_key THEN elapsed > TRACK_CHANGE_INTERVAL
        ELSE elapsed > min_interval

should_update(state, new_track_key, now, min_interval) ==
    LET last_key == state.last_track_key
        elapsed == now - state.last_update
    IN  IF last_key = NoneKey THEN TRUE
        ELSE IF last_key # new_track_key THEN elapsed >= TRACK_CHANGE_INTERVAL
        ELSE elapsed >= min_interval

\* api/index.py 36-46
index_should_update(state, new_track_key, now) ==
    LET last_key == state.last_track_key
        elapsed == now - state.last_update
    IN  IF last_key = NoneKey THEN TRUE
        ELSE IF last_key # new_track_key THEN elapsed >= TRACK_CHANGE_INTERVAL
        ELSE elapsed >= MIN_UPDATE_INTERVAL

\* api/status.py 42-43: the rate_limit part of get_status
status_rate_limit(flood_until, now) ==
    LET rate_limited == IF flood_until # 0 THEN flood_until > now ELSE FALSE
    IN  [active |-> rate_limited,
         remaining_seconds |-> IF rate_limited THEN flood_until - now ELSE 0]

\* api/status.py 28, 70: the errors part of get_status
status_errors(m, now, io) == Take(get_errors(m, now, io).errors, STATUS_ERRORS)

\* the comparison of sync.py 67 made inclusive
IsBlocked_inclusive(flood_until, now) == flood_until # 0 /\ now <= flood_until

\* the comparison of sync.py 67 turned round
IsBlocked_reversed(flood_until, now) == flood_until # 0 /\ now > flood_until

\* sync.py 67: flood_until and time.time() < flood_until
IsBlocked(flood_until, now) == flood_until # 0 /\ now < flood_until

\* sync.py 170: time.time() + flood_wait + 10
WaitUntil(now, flood_wait) == now + flood_wait + FLOOD_BUFFER

\* the remaining time rounded up instead of down
WholeSeconds_up(d) == d + 1

\* int() of a difference of clock readings: whole seconds, towards zero
WholeSeconds(d) == d

\* a message: text with at most one number or one name filled in
Msg(text, n, name) == [text |-> text, n |-> n, name |-> name]

InitialResult(now) ==
    [success |-> FALSE, action |-> "none", message |-> Msg("", 0, <<>>),
     timestamp |-> now]

Call(fn, arg, out, n) == [fn |-> fn, arg |-> arg, out |-> out, n |-> n]

NoFetch == [returned |-> FALSE, track |-> NoTrack]

\* get_current_track returned track (None: NoTrack)
Fetched(track) == [returned |-> TRUE, track |-> track]

NoDecision ==
    [reached |-> FALSE, track_key |-> NoneKey, desired_name |-> <<>>, eligible |-> FALSE]

\* the desired name compared with the baseline instead of the current name
NameUnchanged_baseline(desired_name, state) == desired_name = state.original_last_name

\* sync.py 145
NameUnchanged(desired_name, state) == desired_name = state.current_last_name

\* sync.py 161 left out
ApplyUpdate_uncounted(state, desired_name, track_key, now) ==
    [state EXCEPT !.current_last_name = desired_name,
                  !.last_track_key = track_key,
                  !.last_update = now,
                  !.status = "active"]

\* sync.py 159 left out
ApplyUpdate_keyless(state, desired_name, track_key, now) ==
    [state EXCEPT !.current_last_name = desired_name,
                  !.last_update = now,
                  !.update_count = state.update_count + 1,
                  !.status = "active"]

\* sync.py 158-162
ApplyUpdate(state, desired_name, track_key, now) ==
    [state EXCEPT !.current_last_name = desired_name,
                  !.last_track_key = track_key,
                  !.last_update = now,
                  !.update_count = state.update_count + 1,
                  !.status = "active"]

\* the invocation returns: the handle c = [m, calls, remote, issued, decision, fetch] becomes
\* the state
Return(c, res, fetched) ==
    /\ blob' = c.m.blob
    /\ cache_data' = c.m.cache
    /\ cache_time' = c.m.ctime
    /\ blob_url_cache' = c.m.url
    /\ writes' = c.m.wr
    /\ calls' = c.calls
    /\ remote_last_name' = c.remote
    /\ issued' = c.issued
    /\ result' = res
    /\ cycles' = cycles + 1
    /\ decision' = c.decision
    /\ last_fetch' = c.fetch
    /\ logged' = c.m.lg
    /\ versions' = c.m.vs
    /\ captured' = (captured \/ (/\ fetched
                                 /\ Has(c.m.blob, "sync_state")
                                 /\ c.m.blob["sync_state"].original_last_name
                                        = remote_last_name))
    /\ UNCHANGED <<clock, env, inits, peer, given, returned>>

\* sync.py 182-185: except Exception as e
Raised(c, error, now, io) ==
    Return([c EXCEPT !.m = log_error(c.m, error, "sync", now, io).m],
           [InitialResult(now) EXCEPT !.message = Msg(error, 0, <<>>)], FALSE)

\* sync.py 152-180
SyncUpdate(c, state, alias, track_key, desired_name, fetched, now, io) ==
    \E outcome \in io.update :
        LET u == update_last_name_safe(outcome)
            c1 == [c EXCEPT !.calls = Append(c.calls,
                                 Call("update_last_name_safe", desired_name, outcome.kind,
                                      outcome.seconds)),
                            !.remote = IF u.success THEN desired_name ELSE c.remote]
        IN  IF u.raised
            THEN Raised(c1, "Telegram session expired", now, io)
            ELSE IF u.success
            THEN LET new == ApplyUpdate(state, desired_name, track_key, now)
                     m1 == IF alias /\ Has(c1.m.cache, "sync_state")
                           THEN [c1.m EXCEPT !.cache["sync_state"] = new]
                           ELSE c1.m
                 IN  Return([c1 EXCEPT !.m = save_state(m1, new, alias, now, io).m],
                            [InitialResult(now) EXCEPT
                                !.success = TRUE, !.action = "updated",
                                !.message = Msg("Updated to: {}", 0, desired_name)],
                            fetched)
            ELSE IF u.has_wait /\ u.flood_wait # 0
            THEN LET m1 == set_flood_wait_until(c1.m, WaitUntil(now, u.flood_wait), now, io).m
                     m2 == log_error(m1, "FloodWaitError: {}s", "telegram_update", now, io).m
                 IN  Return([c1 EXCEPT !.m = m2],
                            [InitialResult(now) EXCEPT
                                !.action = "rate_limited",
                                !.message = Msg("Rate limited for {}s", u.flood_wait, <<>>)],
                            fetched)
            ELSE Return([c1 EXCEPT !.m = log_error(c1.m, "Unknown update error",
                                                   "telegram_update", now, io).m],
                        [InitialResult(now) EXCEPT !.message = Msg("Update failed", 0, <<>>)],
                        fetched)

\* sync.py 129-150
SyncDecide(c, state, alias, track, fetched, now, io) ==
    LET track_key == generate_track_key(track)
        desired_name == format_last_name(track, state.original_last_name,
                                         DEFAULT_TEMPLATE, DEFAULT_TRUNCATE)
        eligible == should_update(state, track_key, now, MIN_UPDATE_INTERVAL)
        d == [reached |-> TRUE, track_key |-> track_key, desired_name |-> desired_name,
              eligible |-> eligible]
    IN  IF ~eligible
        THEN Return([c EXCEPT !.m = save_state(c.m, state, alias, now, io).m,
                              !.decision = d],
                    [InitialResult(now) EXCEPT
                        !.success = TRUE, !.action = "skipped",
                        !.message = Msg("No update needed", 0, <<>>)],
                    fetched)
        ELSE IF NameUnchanged(desired_name, state)
        THEN Return([c EXCEPT !.m = save_state(c.m, state, alias, now, io).m,
                              !.decision = d],
                    [InitialResult(now) EXCEPT
                        !.success = TRUE, !.action = "skipped",
                        !.message = Msg("Name unchanged", 0, <<>>)],
                    fetched)
        ELSE SyncUpdate([c EXCEPT !.decision = d], state, alias, track_key, desired_name,
                        fetched, now, io)

\* the except of sync.py 124-127 goes on with an empty baseline instead of returning
SyncBaseline_defaulting(c, track, now, io) ==
    LET m1 == save_current_track(c.m, track, now, io).m
        S == get_state(m1, now, io)
    IN  IF S.state.original_last_name = <<>>
        THEN \E outcome \in io.name :
                LET c1 == [c EXCEPT !.m = S.m,
                                    !.calls = Append(c.calls,
                                                Call("get_last_name", <<>>, outcome, 0))]
                    name == IF outcome = "ok" THEN c.remote ELSE <<>>
                IN  SyncDecide(
                        [c1 EXCEPT !.m = SetStateField(S.m, S.alias,
                                            "original_last_name", name)],
                        [S.state EXCEPT !.original_last_name = name],
                        S.alias, track, outcome = "ok", now, io)
        ELSE SyncDecide([c EXCEPT !.m = S.m], S.state, S.alias, track, FALSE, now, io)

\* sync.py 113-127
SyncBaseline(c, track, now, io) ==
    LET m1 == save_current_track(c.m, track, now, io).m
        S == get_state(m1, now, io)
    IN  IF S.state.original_last_name = <<>>
        THEN \E outcome \in io.name :
                LET c1 == [c EXCEPT !.m = S.m,
                                    !.calls = Append(c.calls,
                                                Call("get_last_name", <<>>, outcome, 0))]
                IN  IF outcome = "ok"
                    THEN SyncDecide(
                            [c1 EXCEPT !.m = SetStateField(S.m, S.alias,
                                                "original_last_name", c.remote)],
                            [S.state EXCEPT !.original_last_name = c.remote],
                            S.alias, track, TRUE, now, io)
                    ELSE Return([c1 EXCEPT !.m = log_error(S.m, "get_last_name failed",
                                                    "get_original_name", now, io).m],
                                [InitialResult(now) EXCEPT
                                    !.message = Msg("Failed to get original name: {}", 0, <<>>)],
                                FALSE)
        ELSE SyncDecide([c EXCEPT !.m = S.m], S.state, S.alias, track, FALSE, now, io)

\* the except of sync.py 106-111 retries the fetch with the same access token
SyncTrack_unrefreshed(c, access_token, stored_refresh, now, io) ==
    \E outcome \in io.fetch :
        LET g == get_current_track(outcome)
            c1 == [c EXCEPT !.calls = Append(c.calls,
                                 Call("get_current_track", access_token, outcome.kind, 0))]
        IN  IF ~g.raised THEN SyncBaseline([c1 EXCEPT !.fetch = Fetched(g.track)], g.track, now, io)
            ELSE \E again \in io.fetch :
                    LET g2 == get_current_track(again)
                        c3 == [c1 EXCEPT !.calls = Append(c1.calls,
                                     Call("get_current_track", access_token, again.kind, 0))]
                    IN  IF g2.raised
                        THEN Raised(c3, "Spotify token expired", now, io)
                        ELSE SyncBaseline([c3 EXCEPT !.fetch = Fetched(g2.track)], g2.track, now, io)

\* sync.py 103-111; stored_refresh is what line 108 reads
SyncTrack(c, access_token, stored_refresh, now, io) ==
    \E outcome \in io.fetch :
        LET g == get_current_track(outcome)
            c1 == [c EXCEPT !.calls = Append(c.calls,
                                 Call("get_current_track", access_token, outcome.kind, 0))]
        IN  IF ~g.raised THEN SyncBaseline([c1 EXCEPT !.fetch = Fetched(g.track)], g.track, now, io)
            ELSE \E refreshed \in io.refresh :
                LET t == refresh_access_token(stored_refresh, refreshed, c.issued, now)
                    c2 == [c1 EXCEPT !.calls = Append(c1.calls,
                                         Call("refresh_access_token", stored_refresh, refreshed, 0))]
                IN  IF t.raised
                    THEN Raised(c2, "Failed to refresh Spotify token: {}", now, io)
                    ELSE \E again \in io.fetch :
                        LET g2 == get_current_track(again)
                            c3 == [c2 EXCEPT
                                      !.issued = c.issued + 1,
                                      !.m = save_tokens(c2.m, t, now, io).m,
                                      !.calls = Append(c2.calls,
                                          Call("get_current_track", t.access_token, again.kind, 0))]
                        IN  IF g2.raised
                            THEN Raised(c3, "Spotify token expired", now, io)
                            ELSE SyncBaseline([c3 EXCEPT !.fetch = Fetched(g2.track)], g2.track, now, io)

\* sync.py 80-101, with a refresh token to use
SyncRefresh(c, refresh_token, stored_refresh, now, io) ==
    \E refreshed \in io.refresh :
        LET t == refresh_access_token(refresh_token, refreshed, c.issued, now)
            c1 == [c EXCEPT !.calls = Append(c.calls,
                                 Call("refresh_access_token", refresh_token, refreshed, 0))]
        IN  IF t.raised
            THEN Raised(c1, "Failed to refresh Spotify token: {}", now, io)
            ELSE SyncTrack([c1 EXCEPT !.issued = c.issued + 1,
                                      !.m = save_tokens(c1.m, t, now, io).m],
                           t.access_token, stored_refresh, now, io)

\* the comparison of sync.py 96 with > instead of >=
SyncTokens_late(c, now, io) ==
    LET T == get_tokens(c.m, now, io)
        c1 == [c EXCEPT !.m = T.m]
    IN  IF ~T.present
        THEN IF ~env.SPOTIFY_REFRESH_TOKEN
             THEN Return([c1 EXCEPT !.m = log_error(T.m, "No Spotify tokens", "sync", now, io).m],
                         [InitialResult(now) EXCEPT
                             !.message = Msg("No Spotify tokens configured", 0, <<>>)],
                         FALSE)
             ELSE SyncRefresh(c1, 0, 0, now, io)
        ELSE IF now > T.value.expires_at - TOKEN_REFRESH_BUFFER
        THEN SyncRefresh(c1, T.value.refresh_token, T.value.refresh_token, now, io)
        ELSE SyncTrack(c1, T.value.access_token, T.value.refresh_token, now, io)

\* sync.py 73-101
SyncTokens(c, now, io) ==
    LET T == get_tokens(c.m, now, io)
        c1 == [c EXCEPT !.m = T.m]
    IN  IF ~T.present
        THEN IF ~env.SPOTIFY_REFRESH_TOKEN
             THEN Return([c1 EXCEPT !.m = log_error(T.m, "No Spotify tokens", "sync", now, io).m],
                         [InitialResult(now) EXCEPT
                             !.message = Msg("No Spotify tokens configured", 0, <<>>)],
                         FALSE)
             ELSE SyncRefresh(c1, 0, 0, now, io)
        ELSE IF now >= T.value.expires_at - TOKEN_REFRESH_BUFFER
        THEN SyncRefresh(c1, T.value.refresh_token, T.value.refresh_token, now, io)
        ELSE SyncTrack(c1, T.value.access_token, T.value.refresh_token, now, io)

\* sync.py 50-185
perform_sync(io) ==
    LET now == clock
        m0 == [blob |-> blob, cache |-> cache_data, ctime |-> cache_time,
               url |-> blob_url_cache, wr |-> <<>>, lg |-> logged,
               vs |-> <<>>]
        F == get_flood_wait_until(m0, now, io)
        S == get_session(F.m, env, now, io)
        c0 == [m |-> F.m, calls |-> <<>>, remote |-> remote_last_name, issued |-> issued,
               decision |-> NoDecision, fetch |-> NoFetch]
    IN  IF IsBlocked(F.value, now)
        THEN Return(c0,
                    [InitialResult(now) EXCEPT
                        !.action = "rate_limited",
                        !.message = Msg("Rate limited, {}s remaining",
                                        WholeSeconds(F.value - now), <<>>)],
                    FALSE)
        ELSE IF S.session = ""
        THEN Return([c0 EXCEPT !.m = log_error(S.m, "No Telegram session", "sync", now, io).m],
                    [InitialResult(now) EXCEPT
                        !.message = Msg("No Telegram session configured", 0, <<>>)],
                    FALSE)
        ELSE SyncTokens([c0 EXCEPT !.m = S.m], now, io)

----------------------------------------------------------------------------
(* api/init.py *)

\* initialize returns: the store handle m and the token count n become the state
InitReturn(m, n) ==
    /\ blob' = m.blob
    /\ cache_data' = m.cache
    /\ cache_time' = m.ctime
    /\ blob_url_cache' = m.url
    /\ issued' = n
    /\ inits' = inits + 1
    /\ writes' = m.wr
    /\ logged' = m.lg
    /\ versions' = m.vs
    /\ UNCHANGED <<clock, env, remote_last_name, result, calls, cycles,
                   decision, captured, last_fetch, peer, given, returned>>

\* init.py 53-63: step 3, the original last name
InitBaseline(m, n, now, io) ==
    IF ~env.TELEGRAM_STRING_SESSION
    THEN InitReturn(m, n)
    ELSE \E outcome \in io.name :
            IF outcome # "ok"
            THEN InitReturn(m, n)
            ELSE LET S == get_state(m, now, io)
                     m1 == SetStateField(
                               SetStateField(S.m, S.alias, "original_last_name",
                                             remote_last_name),
                               S.alias, "status", "initialized")
                     state == [S.state EXCEPT !.original_last_name = remote_last_name,
                                              !.status = "initialized"]
                 IN  InitReturn(save_state(m1, state, S.alias, now, io).m, n)

\* init.py 40-51: step 2, the Spotify tokens
InitTokens(m, now, io) ==
    IF ~env.SPOTIFY_REFRESH_TOKEN
    THEN InitBaseline(m, issued, now, io)
    ELSE \E refreshed \in io.refresh :
            LET t == refresh_access_token(0, refreshed, issued, now)
            IN  IF t.raised
                THEN InitBaseline(m, issued, now, io)
                ELSE InitBaseline(save_tokens(m, t, now, io).m, issued + 1, now, io)

\* init.py 17-69
initialize(io) ==
    LET now == clock
        m0 == [blob |-> blob, cache |-> cache_data, ctime |-> cache_time,
               url |-> blob_url_cache, wr |-> <<>>, lg |-> logged,
               vs |-> <<>>]
    IN  IF env.TELEGRAM_STRING_SESSION
        THEN InitTokens(save_session(m0, "env-session", now, io).m, now, io)
        ELSE InitTokens(m0, now, io)

\* index.py 543-554: step 3 of /api/init, with the session read back from storage
IndexInitBaseline(m, n, now, io) ==
    LET G == get_session(m, env, now, io)
    IN  IF G.session = ""
        THEN InitReturn(G.m, n)
        ELSE \E outcome \in io.name :
                IF outcome # "ok"
                THEN InitReturn(G.m, n)
                ELSE LET S == get_state(G.m, now, io)
                         m1 == SetStateField(
                                   SetStateField(S.m, S.alias, "original_last_name",
                                                 remote_last_name),
                                   S.alias, "status", "initialized")
                         state == [S.state EXCEPT !.original_last_name = remote_last_name,
                                                  !.status = "initialized"]
                     IN  InitReturn(save_state(m1, state, S.alias, now, io).m, n)

\* index.py 525-541: step 2 of /api/init, skipped when tokens are stored
IndexInitTokens(m, now, io) ==
    LET T == get_tokens(m, now, io)
    IN  IF T.present
        THEN IndexInitBaseline(T.m, issued, now, io)
        ELSE IF ~env.SPOTIFY_REFRESH_TOKEN
        THEN IndexInitBaseline(T.m, issued, now, io)
        ELSE \E refreshed \in io.refresh :
                LET t == refresh_access_token(0, refreshed, issued, now)
                IN  IF t.raised
                    THEN IndexInitBaseline(T.m, issued, now, io)
                    ELSE IndexInitBaseline(save_tokens(T.m, t, now, io).m, issued + 1,
                                           now, io)

\* index.py 506-557
index_init(io) ==
    LET now == clock
        m0 == [blob |-> blob, cache |-> cache_data, ctime |-> cache_time,
               url |-> blob_url_cache, wr |-> <<>>, lg |-> logged,
               vs |-> <<>>]
    IN  IF env.TELEGRAM_STRING_SESSION
        THEN IndexInitTokens(save_session(m0, "env-session", now, io).m, now, io)
        ELSE IndexInitTokens(m0, now, io)

\* sync.py 22-29: secret "" stands for CRON_SECRET not set
verify_cron_secret(secret, header) ==
    IF secret = "" THEN TRUE ELSE header = "Bearer " \o secret

\* index.py 377-503: the /api/sync route runs the cycle of sync.py 50-185 under its own
\* try, from the flood-wait check on
index_sync(io) == perform_sync(io)

----------------------------------------------------------------------------
(* The system: a scheduler triggers sync cycles as time passes *)

\* what the collaborators may answer in the runs of Spec: the blob service works,
\* the Spotify token is accepted, Telegram answers in every way it can
World ==
    [load |-> TRUE, save |-> TRUE,
     fetch |-> {o \in FetchOutcomes : o.kind # "unauthorized" /\ o.track # TrackB},
     refresh |-> {"same"},
     name |-> NameOutcomes,
     update |-> UpdateOutcomes]

PerformSync ==
    /\ cycles < MaxCycles
    /\ perform_sync(World)
    /\ UNCHANGED request

\* time passes
Tick ==
    /\ cycles < MaxCycles
    /\ \E t \in Schedule :
        /\ StartTime + t > clock
        /\ clock' = StartTime + t
    /\ UNCHANGED <<blob, cache_data, cache_time, blob_url_cache, remote_last_name,
                   env, issued, result, calls, writes, cycles, decision, captured, inits,
                   last_fetch, peer, logged, given, returned, request, versions>>

\* the serverless instance is recycled: module globals start over
ColdStart ==
    /\ cycles < MaxCycles
    /\ cache_data # Empty
    /\ cache_data' = Empty
    /\ cache_time' = 0
    /\ blob_url_cache' = FALSE
    /\ UNCHANGED <<clock, blob, remote_last_name, env, issued, result, calls,
                   writes, cycles, decision, captured, inits, last_fetch, peer,
                   logged, given, returned, request, versions>>

Environments ==
    {[TELEGRAM_STRING_SESSION |-> TRUE, SPOTIFY_REFRESH_TOKEN |-> TRUE],
     [TELEGRAM_STRING_SESSION |-> FALSE, SPOTIFY_REFRESH_TOKEN |-> TRUE],
     [TELEGRAM_STRING_SESSION |-> TRUE, SPOTIFY_REFRESH_TOKEN |-> FALSE]}

\* no request yet, no CRON_SECRET in the environment
NoRequest == [entry |-> "none", secret |-> "", header |-> "", code |-> 0]

\* no direct call of a formatting function: the arguments perform_sync leaves to default
NoArgs ==
    [track |-> NoTrack, fallback |-> <<>>, template |-> DEFAULT_TEMPLATE,
     truncate |-> DEFAULT_TRUNCATE]

NoOut == [fn |-> "none", value |-> <<>>]

\* the user's last name before any sync
InitialNames == {<<>>, <<"D">>}

Init ==
    /\ clock = StartTime
    /\ blob = Empty
    /\ cache_data = Empty
    /\ cache_time = 0
    /\ blob_url_cache = FALSE
    /\ remote_last_name \in InitialNames
    /\ env \in Environments
    /\ issued = 0
    /\ result = InitialResult(0)
    /\ calls = <<>>
    /\ writes = <<>>
    /\ cycles = 0
    /\ decision = NoDecision
    /\ captured = FALSE
    /\ inits = 0
    /\ last_fetch = NoFetch
    /\ peer = [cache |-> Empty, ctime |-> 0, url |-> FALSE]
    /\ logged = <<>>
    /\ given = NoArgs
    /\ returned = NoOut
    /\ request = NoRequest
    /\ versions = <<>>

Next == PerformSync \/ Tick \/ ColdStart

Spec == Init /\ [][Next]_vars

\* Spotify may reject the access token and the token endpoint answers in every way
\* it can; Telegram works
Expiring ==
    [load |-> TRUE, save |-> TRUE,
     fetch |-> {o \in FetchOutcomes : o.kind \in {"nothing", "unauthorized"} \/ o.track = TrackA},
     refresh |-> RefreshOutcomes,
     name |-> {"ok"},
     update |-> {o \in UpdateOutcomes : o.kind = "ok"}]

SyncWithExpiry ==
    /\ cycles < MaxCycles
    /\ perform_sync(Expiring)
    /\ UNCHANGED request

\* about an hour passes
TickHour ==
    /\ cycles < MaxCycles
    /\ \E t \in TokenSchedule :
        /\ StartTime + t > clock
        /\ clock' = StartTime + t
    /\ UNCHANGED <<blob, cache_data, cache_time, blob_url_cache, remote_last_name,
                   env, issued, result, calls, writes, cycles, decision, captured, inits,
                   last_fetch, peer, logged, given, returned, request, versions>>

NextTokens == SyncWithExpiry \/ TickHour \/ ColdStart

\* sync cycles over the lifetime of an access token
SpecTokens == Init /\ [][NextTokens]_vars

\* a title without parentheses, and parenthetical segments
PlainTitle == <<"S", "o">>

SegmentR == <<"(", "R", ")">>

SegmentL == <<"(", "L", ")">>

NestedSegment == <<"(", "R", " ", "(", "L", ")", ")">>

\* the plain title with no, one, two and a nested parenthetical segment added
FormatTitles ==
    {<<>>,
     PlainTitle,
     PlainTitle \o <<" ">> \o SegmentR,
     PlainTitle \o <<" ">> \o SegmentL,
     PlainTitle \o SegmentR \o <<" ">> \o SegmentL,
     SegmentR \o <<" ">> \o PlainTitle,
     PlainTitle \o <<" ">> \o NestedSegment}

FormatArtists == {<<>>, <<"X">>, <<"X", ",", " ", "Y">>}

FormatTracks ==
    {NoTrack} \cup {TrackInfo(t, a, <<>>) : t \in FormatTitles, a \in FormatArtists}

Fallbacks == {<<>>, <<"D">>, <<"D", "o", "e">>, <<"S", "m", "i", "t", "h">>}

Templates == {DEFAULT_TEMPLATE, <<"{title}">>, <<"{bogus}", "{title}">>}

TruncateLengths == {0, 1, 2, 3, 4, DEFAULT_TRUNCATE}

FormatArgs ==
    [track : FormatTracks, fallback : Fallbacks, template : Templates,
     truncate : TruncateLengths]

InitFormat ==
    /\ clock = StartTime
    /\ blob = Empty
    /\ cache_data = Empty
    /\ cache_time = 0
    /\ blob_url_cache = FALSE
    /\ remote_last_name = <<>>
    /\ env = [TELEGRAM_STRING_SESSION |-> TRUE, SPOTIFY_REFRESH_TOKEN |-> TRUE]
    /\ issued = 0
    /\ result = InitialResult(0)
    /\ calls = <<>>
    /\ writes = <<>>
    /\ cycles = 0
    /\ decision = NoDecision
    /\ captured = FALSE
    /\ inits = 0
    /\ last_fetch = NoFetch
    /\ peer = [cache |-> Empty, ctime |-> 0, url |-> FALSE]
    /\ logged = <<>>
    /\ given \in FormatArgs
    /\ returned = NoOut
    /\ request = NoRequest
    /\ versions = <<>>

\* format_last_name(track, fallback, template, truncate) called with the given arguments
FormatLastName ==
    /\ returned = NoOut
    /\ returned' = [fn |-> "format_last_name",
               value |-> format_last_name(given.track, given.fallback, given.template,
                                          given.truncate)]
    /\ UNCHANGED <<clock, blob, cache_data, cache_time, blob_url_cache, remote_last_name,
                   env, issued, result, calls, writes, cycles, decision, captured, inits,
                   last_fetch, peer, logged, given, request, versions>>

\* generate_track_key(track) called with the given track
GenerateTrackKey ==
    /\ returned = NoOut
    /\ returned' = [fn |-> "generate_track_key", value |-> generate_track_key(given.track)]
    /\ UNCHANGED <<clock, blob, cache_data, cache_time, blob_url_cache, remote_last_name,
                   env, issued, result, calls, writes, cycles, decision, captured, inits,
                   last_fetch, peer, logged, given, request, versions>>

NextFormat == FormatLastName \/ GenerateTrackKey

\* the formatting functions on their own
SpecFormat == InitFormat /\ [][NextFormat]_vars

\* values of CRON_SECRET, and Authorization headers a request may carry
Secrets == {"", "s3cret"}

Headers == {"", "Bearer s3cret", "Bearer other", "s3cret", "bearer s3cret"}

\* the deployment behind its HTTP entrypoints; the collaborators work
InitEntry ==
    /\ clock = StartTime
    /\ blob = Empty
    /\ cache_data = Empty
    /\ cache_time = 0
    /\ blob_url_cache = FALSE
    /\ remote_last_name = <<"D">>
    /\ env = [TELEGRAM_STRING_SESSION |-> TRUE, SPOTIFY_REFRESH_TOKEN |-> TRUE]
    /\ issued = 0
    /\ result = InitialResult(0)
    /\ calls = <<>>
    /\ writes = <<>>
    /\ cycles = 0
    /\ decision = NoDecision
    /\ captured = FALSE
    /\ inits = 0
    /\ last_fetch = NoFetch
    /\ peer = [cache |-> Empty, ctime |-> 0, url |-> FALSE]
    /\ logged = <<>>
    /\ given = NoArgs
    /\ returned = NoOut
    /\ request \in {[NoRequest EXCEPT !.secret = secret] : secret \in Secrets}
    /\ versions = <<>>

Working ==
    [load |-> TRUE, save |-> TRUE,
     fetch |-> {o \in FetchOutcomes : o.kind = "nothing" \/ o.track = TrackA},
     refresh |-> {"same"},
     name |-> {"ok"},
     update |-> {o \in UpdateOutcomes : o.kind = "ok"}]

\* sync.py 189-204: GET on the api/sync.py function
SyncHandler ==
    /\ cycles < MaxCycles
    /\ \E header \in Headers :
        IF ~verify_cron_secret(request.secret, header)
        THEN /\ request' = [request EXCEPT !.entry = "api/sync.py", !.header = header,
                                           !.code = 401]
             /\ UNCHANGED <<clock, blob, cache_data, cache_time, blob_url_cache,
                            remote_last_name, env, issued, result, calls, writes, cycles,
                            decision, captured, inits, last_fetch, peer, logged, given,
                            returned, versions>>
        ELSE /\ request' = [request EXCEPT !.entry = "api/sync.py", !.header = header,
                                           !.code = 200]
             /\ perform_sync(Working)

\* index.py 377-503: GET /api/sync on the Flask app
IndexSyncRoute ==
    /\ cycles < MaxCycles
    /\ \E header \in Headers :
        /\ request' = [request EXCEPT !.entry = "index.py /api/sync", !.header = header,
                                      !.code = 200]
        /\ index_sync(Working)

\* init.py 75-83: POST or GET on the api/init.py function
InitHandler ==
    /\ inits < MaxInits
    /\ request' = [request EXCEPT !.entry = "api/init.py", !.header = "", !.code = 200]
    /\ initialize(Working)

\* index.py 506-557: GET /api/init on the Flask app
IndexInitRoute ==
    /\ inits < MaxInits
    /\ request' = [request EXCEPT !.entry = "index.py /api/init", !.header = "",
                                  !.code = 200]
    /\ index_init(Working)

NextEntry == SyncHandler \/ IndexSyncRoute \/ InitHandler \/ IndexInitRoute \/ Tick

\* requests to the HTTP entrypoints of the deployment
SpecEntry == InitEntry /\ [][NextEntry]_vars

\* the collaborators keep succeeding; the player reports a track or nothing
Succeeding ==
    [load |-> TRUE, save |-> TRUE,
     fetch |-> {o \in FetchOutcomes : o.kind = "nothing" \/ o.track \in {TrackA, TrackA2}},
     refresh |-> {"same"},
     name |-> {"ok"},
     update |-> {o \in UpdateOutcomes : o.kind = "ok"}]

\* the scheduler triggers a cycle every Period seconds
Trigger ==
    /\ cycles < MaxTriggers
    /\ clock = StartTime + Period * cycles
    /\ perform_sync(Succeeding)
    /\ UNCHANGED request

\* the time until the next trigger passes
Wait ==
    /\ cycles < MaxTriggers
    /\ clock < StartTime + Period * cycles
    /\ clock' = clock + Period
    /\ UNCHANGED <<blob, cache_data, cache_time, blob_url_cache, remote_last_name,
                   env, issued, result, calls, writes, cycles, decision, captured, inits,
                   last_fetch, peer, logged, given, returned, request, versions>>

NextLive == Trigger \/ Wait

\* the scheduler has a cycle to trigger now
TriggerDue == cycles < MaxTriggers /\ clock = StartTime + Period * cycles

\* periodic triggering that does not stop: time passes when it can and a due cycle
\* does not stay due (Trigger is enabled exactly when TriggerDue, and taking it ends
\* TriggerDue, so the last conjunct is WF_vars(Trigger))
SpecLive == Init /\ [][NextLive]_vars /\ WF_vars(Wait) /\ []<>~TriggerDue

\* what the callers of log_error say went wrong
ErrorTexts == {"Unknown update error", "get_last_name failed"}

\* storage.log_error called on its own, as every failing path of the program does
LogError ==
    /\ Len(logged) < MaxErrors
    /\ \E text \in ErrorTexts :
        LET m0 == [blob |-> blob, cache |-> cache_data, ctime |-> cache_time,
                   url |-> blob_url_cache, wr |-> <<>>, lg |-> logged,
               vs |-> <<>>]
            S == log_error(m0, text, "sync", clock, World)
        IN  /\ blob' = S.m.blob
            /\ cache_data' = S.m.cache
            /\ cache_time' = S.m.ctime
            /\ blob_url_cache' = S.m.url
            /\ writes' = S.m.wr
            /\ logged' = S.m.lg
            /\ versions' = S.m.vs
    /\ UNCHANGED <<clock, remote_last_name, env, issued, result, calls, cycles,
                   decision, captured, inits, last_fetch, peer, given, returned,
                   request>>

NextErrors == LogError \/ ColdStart

\* a long run of failures
SpecErrors == Init /\ [][NextErrors]_vars

\* two instances: Telegram accepts the update, rate limits it or fails
Shared ==
    [load |-> TRUE, save |-> TRUE,
     fetch |-> {o \in FetchOutcomes : o.kind = "nothing" \/ o.track = TrackA},
     refresh |-> {"same"},
     name |-> {"ok"},
     update |-> {o \in UpdateOutcomes : o.kind \in {"ok", "other"} \/ o.seconds = 30}]

SyncOnInstance ==
    /\ cycles < MaxCycles
    /\ perform_sync(Shared)
    /\ UNCHANGED request

InitializeOnInstance ==
    /\ inits < MaxInits
    /\ initialize(Shared)
    /\ UNCHANGED request

\* the next request is served by the other instance, which has its own module globals
SwitchInstance ==
    /\ cycles < MaxCycles
    /\ peer # [cache |-> cache_data, ctime |-> cache_time, url |-> blob_url_cache]
    /\ cache_data' = peer.cache
    /\ cache_time' = peer.ctime
    /\ blob_url_cache' = peer.url
    /\ peer' = [cache |-> cache_data, ctime |-> cache_time, url |-> blob_url_cache]
    /\ UNCHANGED <<clock, blob, remote_last_name, env, issued, result, calls, writes,
                   cycles, decision, captured, inits, last_fetch, logged, given, returned,
                   request, versions>>

NextPeers == SyncOnInstance \/ InitializeOnInstance \/ SwitchInstance \/ Tick \/ ColdStart

\* requests served by two instances of the function, one after the other
SpecPeers == Init /\ [][NextPeers]_vars

\* the blob service answers reads (load) or not during one invocation; Telegram
\* accepts the update or fails
Outage(load) ==
    [load |-> load, save |-> TRUE,
     fetch |-> {o \in FetchOutcomes : o.kind = "nothing" \/ o.track = TrackA},
     refresh |-> {"same"},
     name |-> {"ok"},
     update |-> {o \in UpdateOutcomes : o.kind \in {"ok", "other"}}]

SyncDuringOutage ==
    /\ cycles < MaxCycles
    /\ \E load \in BOOLEAN : perform_sync(Outage(load))
    /\ UNCHANGED request

\* the operator calls /api/init
Initialize ==
    /\ inits < MaxInits
    /\ \E load \in BOOLEAN : initialize(Outage(load))
    /\ UNCHANGED request

NextOps == SyncDuringOutage \/ Initialize \/ Tick \/ ColdStart

\* sync cycles and initializations with a blob service whose reads may fail
SpecOps == Init /\ [][NextOps]_vars

\* the blob service accepts the puts of an invocation (save) or rejects them;
\* Telegram accepts every update
Rejecting(save) ==
    [load |-> TRUE, save |-> save,
     fetch |-> {o \in FetchOutcomes : o.kind # "unauthorized" /\ o.track # TrackB},
     refresh |-> {"same"},
     name |-> {"ok"},
     update |-> {o \in UpdateOutcomes : o.kind = "ok"}]

SyncWithStore ==
    /\ cycles < MaxCycles
    /\ \E save \in BOOLEAN : perform_sync(Rejecting(save))
    /\ UNCHANGED request

NextStore == SyncWithStore \/ Tick

\* sync cycles with a blob service whose puts may fail
SpecStore == Init /\ [][NextStore]_vars

----------------------------------------------------------------------------
(* Reading the persisted record and the last invocation *)

\* the recorded flood_wait_until (0 when the record has none)
FloodOf(b) == IF Has(b, "flood_wait_until") THEN b["flood_wait_until"] ELSE 0

\* the recorded sync state (the defaults of get_state when the record has none)
StateOf(b) == IF Has(b, "sync_state") THEN b["sync_state"] ELSE DefaultState

\* the recorded error log
ErrorsOf(b) == IF Has(b, "errors") THEN b["errors"] ELSE <<>>

\* this step is one invocation of perform_sync
CycleStep == cycles' = cycles + 1

ProfileUpdaterFns == {"get_last_name", "update_last_name_safe"}

CallsTo(cs, fns) == {i \in DOMAIN cs : cs[i].fn \in fns}

\* the invocation called update_last_name_safe, which ended in `kind`
UpdateEnded(cs, kind) ==
    \E i \in DOMAIN cs : cs[i].fn = "update_last_name_safe" /\ cs[i].out = kind

UpdateCall(cs) == cs[CHOOSE i \in DOMAIN cs : cs[i].fn = "update_last_name_safe"]

GateMessage == "Rate limited, {}s remaining"

\* the last invocation was stopped by the rate limiter gate
StoppedAtGate(res) == res.action = "rate_limited" /\ res.message.text = GateMessage

\* one more entry at the head of the error log, the rest as before
ErrorLogged(before, after, context) ==
    /\ after # <<>>
    /\ after[1].context = context
    /\ Tail(after) = Take(before, ERROR_LOG_SIZE - 1)

----------------------------------------------------------------------------
(* C1 *)

----------------------------------------------------------------------------
(* C2 *)

\* C2: whenever update_last_name_safe reports a rate limit of r seconds in a cycle
\* running at time now, the recorded flood_wait_until becomes now + r + 10, whatever
\* was recorded before.
C2_RateLimitRecordsCooldown ==
    [][(CycleStep /\ UpdateEnded(calls', "flood"))
          => FloodOf(blob') = clock + UpdateCall(calls').n + 10]_vars

----------------------------------------------------------------------------
(* C3 *)

\* C3: the gate is blocked at time now exactly when the recorded flood_wait_until is
\* strictly greater than now, both for perform_sync and for the status endpoint; a
\* recorded value of 0, or none, never blocks.
C3_GateBlockedIffStrictlyBefore ==
    [][/\ IsBlocked(FloodOf(blob), clock) <=> (FloodOf(blob) > clock)
       /\ status_rate_limit(FloodOf(blob), clock).active <=> (FloodOf(blob) > clock)
       /\ IsBlocked(FloodOf(blob'), clock') <=> (FloodOf(blob') > clock')
       /\ status_rate_limit(FloodOf(blob'), clock').active <=> (FloodOf(blob') > clock')
       /\ CycleStep => (StoppedAtGate(result') <=> (FloodOf(blob) > clock))]_vars

\* a rate limit of 30 s was recorded at StartTime, and the invocation at
\* StartTime + 40 passed the gate
C3_Witness ==
    /\ cycles = 2
    /\ FloodOf(blob) = StartTime + 30 + 10
    /\ result.timestamp = StartTime + 40
    /\ ~StoppedAtGate(result)
    /\ calls # <<>>

----------------------------------------------------------------------------
(* C4 *)

\* C4: a cycle that starts while the gate is blocked ends with action rate_limited,
\* calls neither Spotify nor Telegram, refreshes no token, writes nothing to the
\* store, and reports flood_wait_until - now as the remaining seconds.
C4_BlockedCycleDoesNothing ==
    [][(CycleStep /\ FloodOf(blob) > clock)
          => /\ result'.action = "rate_limited"
             /\ ~result'.success
             /\ result'.message = Msg(GateMessage, FloodOf(blob) - clock, <<>>)
             /\ calls' = <<>>
             /\ writes' = <<>>
             /\ blob' = blob
             /\ issued' = issued
             /\ remote_last_name' = remote_last_name]_vars

\* a rate limit of 120 s recorded at StartTime, then a cycle at StartTime + 50 that
\* reports 80 s
C4_Witness ==
    /\ cycles = 2
    /\ FloodOf(blob) = StartTime + 120 + 10
    /\ result.timestamp = StartTime + 50
    /\ result.message = Msg(GateMessage, 80, <<>>)
    /\ writes = <<>>

----------------------------------------------------------------------------
(* C5 *)

\* C5: once a sync cycle has fetched the live name and stored it as the baseline, no
\* later sync cycle calls get_last_name or changes the recorded original_last_name.
C5_BaselineCapturedOnce ==
    [][(CycleStep /\ captured)
          => /\ CallsTo(calls', {"get_last_name"}) = {}
             /\ StateOf(blob').original_last_name = StateOf(blob).original_last_name]_vars

----------------------------------------------------------------------------
(* C6 *)

\* the update-gate policy as the specification words it
PolicyEligible(last_key, key, elapsed) ==
    \/ last_key = NoneKey
    \/ key # last_key /\ elapsed >= 60
    \/ key = last_key /\ elapsed >= 180

\* C6: the update gate is eligible exactly when there is no prior last_track_key, or
\* the key changed and at least 60 s have passed since last_update, or the key is the
\* same and at least 180 s have passed; a cycle that is not eligible is skipped.
C6_UpdateGatePolicy ==
    [][(CycleStep /\ decision'.reached)
          => LET pre == StateOf(blob)
                 e == PolicyEligible(pre.last_track_key, decision'.track_key,
                                     clock - pre.last_update)
             IN  /\ decision'.eligible = e
                 /\ should_update(pre, decision'.track_key, clock, MIN_UPDATE_INTERVAL) = e
                 /\ index_should_update(pre, decision'.track_key, clock) = e
                 /\ (result'.message.text = "No update needed") = ~e]_vars

\* a changed track 59 s after the last update: not eligible
C6_Witness ==
    /\ decision.reached
    /\ ~decision.eligible
    /\ StateOf(blob).last_track_key \notin {NoneKey, decision.track_key}
    /\ result.timestamp - StateOf(blob).last_update = 59
    /\ result.message.text = "No update needed"

----------------------------------------------------------------------------
(* C7 *)

\* C7: in a cycle whose desired name equals the recorded current_last_name,
\* update_last_name_safe is not called, eligible or not, and the cycle is skipped.
C7_NoCallWhenNameUnchanged ==
    [][(/\ CycleStep
        /\ decision'.reached
        /\ decision'.desired_name = StateOf(blob).current_last_name)
          => /\ CallsTo(calls', {"update_last_name_safe"}) = {}
             /\ result'.action = "skipped"
             /\ result'.success]_vars

\* after one update, an eligible cycle whose desired name is the current one
C7_Witness ==
    /\ StateOf(blob).update_count = 1
    /\ decision.reached
    /\ decision.eligible
    /\ decision.desired_name = StateOf(blob).current_last_name
    /\ result.message.text = "Name unchanged"
    /\ CallsTo(calls, {"update_last_name_safe"}) = {}

----------------------------------------------------------------------------
(* C8 *)

\* C8: when update_last_name_safe succeeds, the recorded sync state has
\* current_last_name = the desired name, last_track_key = the cycle's key,
\* last_update = now, update_count one more than before and status active; the result
\* is updated with success; and the cycle writes sync_state once, as its last write.
C8_SuccessfulUpdatePersists ==
    [][(CycleStep /\ UpdateEnded(calls', "ok"))
          => LET pre == StateOf(blob)
                 post == StateOf(blob')
             IN  /\ Has(blob', "sync_state")
                 /\ post.current_last_name = decision'.desired_name
                 /\ post.current_last_name = UpdateCall(calls').arg
                 /\ post.last_track_key = decision'.track_key
                 /\ post.last_update = clock
                 /\ post.update_count = pre.update_count + 1
                 /\ post.status = "active"
                 /\ result'.action = "updated"
                 /\ result'.success
                 /\ Cardinality({i \in DOMAIN writes' : writes'[i] = "sync_state"}) = 1
                 /\ writes'[Len(writes')] = "sync_state"]_vars

\* the second successful update
C8_Witness ==
    /\ result.action = "updated"
    /\ UpdateEnded(calls, "ok")
    /\ StateOf(blob).update_count = 2
    /\ StateOf(blob).last_update = result.timestamp

----------------------------------------------------------------------------
(* C9 *)

\* C9: when update_last_name_safe reports a rate limit, the cycle records the
\* cooldown, adds an error-log entry, returns rate_limited, and leaves
\* current_last_name, last_track_key, last_update and update_count as recorded.
C9_RateLimitedUpdate ==
    [][(CycleStep /\ UpdateEnded(calls', "flood"))
          => LET pre == StateOf(blob)
                 post == StateOf(blob')
             IN  /\ FloodOf(blob') > clock
                 /\ ErrorLogged(ErrorsOf(blob), ErrorsOf(blob'), "telegram_update")
                 /\ result'.action = "rate_limited"
                 /\ post.current_last_name = pre.current_last_name
                 /\ post.last_track_key = pre.last_track_key
                 /\ post.last_update = pre.last_update
                 /\ post.update_count = pre.update_count]_vars

----------------------------------------------------------------------------
(* C10 *)

\* C10: when update_last_name_safe fails with neither a rate limit nor an invalid
\* session, the cycle adds an error-log entry, returns action none without success,
\* records no cooldown, and leaves the recorded sync state as it was.
C10_OtherFailureLeavesState ==
    [][(CycleStep /\ UpdateEnded(calls', "other"))
          => /\ ErrorLogged(ErrorsOf(blob), ErrorsOf(blob'), "telegram_update")
             /\ result'.action = "none"
             /\ ~result'.success
             /\ FloodOf(blob') = FloodOf(blob)
             /\ Has(blob', "sync_state") = Has(blob, "sync_state")
             /\ StateOf(blob') = StateOf(blob)]_vars

----------------------------------------------------------------------------
(* C11 *)

SessionMessage == "Telegram session expired"

----------------------------------------------------------------------------
(* C12 *)

\* C12: every sync cycle, whatever path it ends on, leaves last_sync = now in the
\* recorded sync state.
C12_EveryPathStampsLastSync ==
    [][CycleStep => (Has(blob', "sync_state") /\ StateOf(blob').last_sync = clock)]_vars

----------------------------------------------------------------------------
(* C13 *)

\* the invocation fetched the live name as the baseline
BaselineFetched(cs) ==
    \E i \in DOMAIN cs : cs[i].fn = "get_last_name" /\ cs[i].out = "ok"

\* C13: a cycle that ends skipped records last_sync = now and leaves
\* current_last_name, last_track_key, last_update, update_count and status as
\* recorded; original_last_name changes only to the live name fetched in that cycle.
C13_SkippedCycleOnlyStamps ==
    [][(CycleStep /\ result'.action = "skipped")
          => LET pre == StateOf(blob)
                 post == StateOf(blob')
             IN  /\ Has(blob', "sync_state")
                 /\ post.last_sync = clock
                 /\ post.current_last_name = pre.current_last_name
                 /\ post.last_track_key = pre.last_track_key
                 /\ post.last_update = pre.last_update
                 /\ post.update_count = pre.update_count
                 /\ post.status = pre.status
                 /\ post.original_last_name =
                        IF BaselineFetched(calls') THEN remote_last_name
                        ELSE pre.original_last_name]_vars

\* after one update, a later cycle that was skipped
C13_Witness ==
    /\ result.action = "skipped"
    /\ StateOf(blob).update_count = 1
    /\ StateOf(blob).last_sync = result.timestamp
    /\ StateOf(blob).last_update < result.timestamp
    /\ ~BaselineFetched(calls)

----------------------------------------------------------------------------
(* C14 *)

\* the invocation tried to fetch the live name and the request failed
BaselineFailed(cs) ==
    \E i \in DOMAIN cs : cs[i].fn = "get_last_name" /\ cs[i].out = "failed"

BaselineFailureMessage == "Failed to get original name: {}"

\* C14: when the baseline is unset and get_last_name fails, the cycle stops there:
\* update_last_name_safe is not called, the recorded sync state is as before, the
\* error log gets an entry with context get_original_name, and success is false.
C14_BaselineFailureAborts ==
    [][(CycleStep /\ BaselineFailed(calls'))
          => /\ StateOf(blob).original_last_name = <<>>
             /\ CallsTo(calls', {"update_last_name_safe"}) = {}
             /\ calls'[Len(calls')].fn = "get_last_name"
             /\ remote_last_name' = remote_last_name
             /\ Has(blob', "sync_state") = Has(blob, "sync_state")
             /\ StateOf(blob') = StateOf(blob)
             /\ ErrorLogged(ErrorsOf(blob), ErrorsOf(blob'), "get_original_name")
             /\ ~result'.success
             /\ result'.action = "none"
             /\ result'.message.text = BaselineFailureMessage]_vars

\* the first cycle of an account could not read the live name
C14_Witness ==
    /\ cycles = 1
    /\ BaselineFailed(calls)
    /\ ~Has(blob, "sync_state")
    /\ ErrorsOf(blob)[1].context = "get_original_name"
    /\ result.message.text = BaselineFailureMessage

----------------------------------------------------------------------------
(* C15 *)

\* C15: over sync and initialization invocations the recorded update_count never
\* decreases: a step adds one to it when it is a cycle whose update_last_name_safe
\* succeeded, and leaves it as it is otherwise.
C15_UpdateCountCountsUpdates ==
    [][StateOf(blob').update_count =
          StateOf(blob).update_count
              + (IF CycleStep /\ UpdateEnded(calls', "ok") THEN 1 ELSE 0)]_vars

----------------------------------------------------------------------------
(* C16 *)

\* last_track_key is None exactly when update_count is 0, and otherwise is the
\* string stopped or a track: key
KeyMatchesCount(state) ==
    /\ (state.last_track_key = NoneKey) <=> (state.update_count = 0)
    /\ \/ state.last_track_key \in {NoneKey, STOPPED_KEY}
       \/ StartsWith(state.last_track_key, TRACK_PREFIX)

\* C16: in every recorded state last_track_key is None if and only if update_count
\* is 0; once it is a key (stopped or track:...) it never becomes None again.
C16_KeyNoneOnlyBeforeFirstUpdate ==
    [][/\ KeyMatchesCount(StateOf(blob'))
       /\ StateOf(blob).last_track_key # NoneKey
             => StateOf(blob').last_track_key # NoneKey]_vars

----------------------------------------------------------------------------
(* C17 *)

\* the cycle gave up: a failed result, an error-log entry, no Profile Updater call
GaveUp(cs, res, before, after) ==
    /\ ~res.success
    /\ res.action = "none"
    /\ ErrorLogged(before, after, "sync")
    /\ CallsTo(cs, ProfileUpdaterFns) = {}

\* C17: when the fetch with the stored, not yet expiring access token is answered
\* unauthorized, the cycle refreshes the token once and fetches once more with the
\* new access token; when the refresh fails or the second fetch is unauthorized
\* again, the cycle gives up there: a logged failure, no Profile Updater call, no
\* further refresh or fetch.
C17_OneRefreshAndRetry ==
    [][(/\ CycleStep
        /\ calls' # <<>>
        /\ calls'[1].fn = "get_current_track"
        /\ calls'[1].out = "unauthorized")
          => /\ Len(calls') >= 2
             /\ calls'[2].fn = "refresh_access_token"
             /\ Cardinality(CallsTo(calls', {"refresh_access_token"})) = 1
             /\ IF calls'[2].out = "failed"
                THEN /\ Len(calls') = 2
                     /\ GaveUp(calls', result', ErrorsOf(blob), ErrorsOf(blob'))
                ELSE /\ Len(calls') >= 3
                     /\ calls'[3].fn = "get_current_track"
                     /\ calls'[3].arg = issued'
                     /\ issued' = issued + 1
                     /\ Cardinality(CallsTo(calls', {"get_current_track"})) = 2
                     /\ calls'[3].out = "unauthorized"
                           => /\ Len(calls') = 3
                              /\ GaveUp(calls', result', ErrorsOf(blob), ErrorsOf(blob'))]_vars

\* a stored token was rejected, refreshed and rejected again
C17_Witness ==
    /\ cycles = 2
    /\ Len(calls) = 3
    /\ calls[1].fn = "get_current_track" /\ calls[1].out = "unauthorized"
    /\ calls[2].fn = "refresh_access_token" /\ calls[2].out # "failed"
    /\ calls[3].fn = "get_current_track" /\ calls[3].out = "unauthorized"
    /\ result.message.text = "Spotify token expired"
    /\ ErrorsOf(blob)[1].timestamp = result.timestamp

----------------------------------------------------------------------------
(* C18 *)

\* the token record a refresh performed at `now` with refresh token `arg` leaves,
\* `n` pairs having been issued before
IssuedRecord(call, n, now) ==
    [access_token |-> n + 1,
     refresh_token |-> IF call.out = "rotated" THEN n + 1 ELSE call.arg,
     expires_at |-> now + 3600]

\* C18: a cycle that gets to the token step with stored tokens refreshes first, with
\* the stored refresh token, exactly when now >= expires_at - 300, and records the
\* new tokens; otherwise its first call is the fetch with the stored access token, and
\* unless that fetch is answered unauthorized the cycle refreshes nothing and leaves
\* the token record as it is.  Without stored tokens it refreshes with the
\* environment's refresh token and records the tokens.
C18_RefreshWhenWithinBuffer ==
    [][(CycleStep /\ calls' # <<>>)
          => LET first == calls'[1]
                 refreshes == CallsTo(calls', {"refresh_access_token"})
                 recorded == /\ Has(blob', "spotify_tokens")
                             /\ (first.out # "failed" /\ Cardinality(refreshes) = 1)
                                   => blob'["spotify_tokens"] = IssuedRecord(first, issued, clock)
             IN  IF Has(blob, "spotify_tokens")
                 THEN LET tokens == blob["spotify_tokens"]
                      IN  IF clock >= tokens.expires_at - 300
                          THEN /\ first.fn = "refresh_access_token"
                               /\ first.arg = tokens.refresh_token
                               /\ recorded
                          ELSE /\ first.fn = "get_current_track"
                               /\ first.arg = tokens.access_token
                               /\ first.out # "unauthorized"
                                     => /\ refreshes = {}
                                        /\ blob'["spotify_tokens"] = tokens
                 ELSE /\ first.fn = "refresh_access_token"
                      /\ first.arg = 0
                      /\ first.out # "failed" => recorded]_vars

\* a token issued at StartTime is refreshed by the cycle at StartTime + 3300
C18_Witness ==
    /\ cycles = 2
    /\ result.timestamp = StartTime + 3300
    /\ calls # <<>>
    /\ calls[1].fn = "refresh_access_token"
    /\ calls[1].out = "same"
    /\ issued = 2
    /\ blob["spotify_tokens"] = [access_token |-> 2, refresh_token |-> 0,
                                 expires_at |-> StartTime + 3300 + 3600]

----------------------------------------------------------------------------
(* C19 *)

\* the refresh calls of an invocation that returned a token
Refreshed(cs) ==
    {i \in DOMAIN cs : cs[i].fn = "refresh_access_token" /\ cs[i].out # "failed"}

LastOf(S) == CHOOSE i \in S : \A j \in S : j <= i

\* C19: the token of a successful refresh carries the provider's new refresh token
\* when it returned one and the refresh token passed in otherwise, and this is what
\* the cycle records; a refresh that fails ends the cycle as a logged failure, and a
\* cycle in which no refresh succeeded leaves the token record as it was.
C19_RefreshTokenAdoptedOrKept ==
    [][CycleStep
          => /\ Refreshed(calls') # {}
                   => LET call == calls'[LastOf(Refreshed(calls'))]
                      IN  /\ Has(blob', "spotify_tokens")
                          /\ blob'["spotify_tokens"].access_token = issued'
                          /\ blob'["spotify_tokens"].refresh_token =
                                 IF call.out = "rotated" THEN issued' ELSE call.arg
             /\ Refreshed(calls') = {}
                   => /\ Has(blob', "spotify_tokens") = Has(blob, "spotify_tokens")
                      /\ Has(blob, "spotify_tokens")
                            => blob'["spotify_tokens"] = blob["spotify_tokens"]
                      /\ issued' = issued
             /\ \A i \in DOMAIN calls' :
                   (calls'[i].fn = "refresh_access_token" /\ calls'[i].out = "failed")
                       => /\ i = Len(calls')
                          /\ ~result'.success
                          /\ result'.message.text = "Failed to refresh Spotify token: {}"
                          /\ ErrorLogged(ErrorsOf(blob), ErrorsOf(blob'), "sync")]_vars

\* the stored refresh token, kept by the first refresh, is replaced by the one the
\* provider returned in the second
C19_Witness ==
    /\ cycles = 2
    /\ calls # <<>>
    /\ calls[1].fn = "refresh_access_token"
    /\ calls[1].arg = 0
    /\ calls[1].out = "rotated"
    /\ Refreshed(calls) = {1}
    /\ blob["spotify_tokens"].refresh_token = 2
    /\ result.timestamp >= StartTime + 3300

----------------------------------------------------------------------------
(* C20 *)

\* a profile session is available: a stored one, or TELEGRAM_STRING_SESSION
SessionAvailable ==
    \/ Has(blob, "telegram_session") /\ blob["telegram_session"] # ""
    \/ env.TELEGRAM_STRING_SESSION

\* Spotify credentials are available: stored tokens, or SPOTIFY_REFRESH_TOKEN
CredentialsAvailable == Has(blob, "spotify_tokens") \/ env.SPOTIFY_REFRESH_TOKEN

NoSessionMessage == "No Telegram session configured"

NoTokensMessage == "No Spotify tokens configured"

\* a result that only reports: no success, action none, an error-log entry with the
\* given text, no call to Spotify or Telegram
NoOp(res, cs, before, after, error) ==
    /\ ~res.success
    /\ res.action = "none"
    /\ cs = <<>>
    /\ ErrorLogged(before, after, "sync")
    /\ after[1].error = error

\* C20: a cycle that passes the rate limiter gate reports "No Telegram session
\* configured" exactly when no session is available, and "No Spotify tokens
\* configured" exactly when a session is available but no Spotify credentials are; in
\* both cases it returns action none without success, logs the error, and calls
\* neither Spotify nor Telegram.
C20_MissingCredentialsNoOp ==
    [][(CycleStep /\ ~(FloodOf(blob) > clock))
          => /\ (result'.message.text = NoSessionMessage) <=> ~SessionAvailable
             /\ (result'.message.text = NoTokensMessage)
                   <=> (SessionAvailable /\ ~CredentialsAvailable)
             /\ ~SessionAvailable
                   => NoOp(result', calls', ErrorsOf(blob), ErrorsOf(blob'),
                           "No Telegram session")
             /\ (SessionAvailable /\ ~CredentialsAvailable)
                   => NoOp(result', calls', ErrorsOf(blob), ErrorsOf(blob'),
                           "No Spotify tokens")]_vars

\* the second cycle of a deployment without Spotify credentials
C20_Witness ==
    /\ cycles = 2
    /\ env.TELEGRAM_STRING_SESSION
    /\ ~env.SPOTIFY_REFRESH_TOKEN
    /\ ~Has(blob, "spotify_tokens")
    /\ result.message.text = NoTokensMessage
    /\ calls = <<>>
    /\ Len(ErrorsOf(blob)) = 2
    /\ ErrorsOf(blob)[1].error = "No Spotify tokens"

----------------------------------------------------------------------------
(* C21 *)

\* a call of the invocation to Spotify or Telegram ended in a failure
CollaboratorFailed(cs) ==
    \E i \in DOMAIN cs : cs[i].out \in {"failed", "flood", "session", "other"}

\* exactly one entry, stamped now, was put at the head of the error log
OneEntryAdded(before, after, now) ==
    /\ after # <<>>
    /\ after[1].timestamp = now
    /\ Tail(after) = Take(before, ERROR_LOG_SIZE - 1)

\* C21: every invocation returns a result with success, action and message, and an
\* invocation in which a collaborator failed, or which returns without success for
\* another reason than the rate limiter gate, adds one entry to the error log.
C21_FailuresReportedAndLogged ==
    [][CycleStep
          => /\ {"success", "action", "message"} \subseteq DOMAIN result'
             /\ (\/ CollaboratorFailed(calls')
                 \/ ~result'.success /\ ~StoppedAtGate(result'))
                   => OneEntryAdded(ErrorsOf(blob), ErrorsOf(blob'), clock)]_vars

----------------------------------------------------------------------------
(* C22 *)

\* the snapshot of a fetched track: track.to_dict() with the fetch timestamp, or the
\* not-playing marker with the timestamp
TrackSnapshot(track, now) ==
    IF TrackTruthy(track)
    THEN [title |-> track.title, artist |-> track.artist, album |-> track.album,
          is_playing |-> TRUE, timestamp |-> now]
    ELSE [title |-> <<>>, artist |-> <<>>, album |-> <<>>,
          is_playing |-> FALSE, timestamp |-> now]

\* C22: in a cycle whose track fetch returned, the recorded current_track is the
\* snapshot of what it returned, stamped now, however the cycle ends afterwards.
C22_SnapshotAlwaysPersisted ==
    [][(CycleStep /\ last_fetch'.returned)
          => /\ Has(blob', "current_track")
             /\ blob'["current_track"] = TrackSnapshot(last_fetch'.track, clock)
             /\ \E i \in DOMAIN writes' : writes'[i] = "current_track"]_vars

\* the snapshot of a playing track is recorded by a cycle whose update was rate limited
C22_Witness ==
    /\ cycles = 2
    /\ last_fetch.returned
    /\ TrackTruthy(last_fetch.track)
    /\ UpdateEnded(calls, "flood")
    /\ result.action = "rate_limited"
    /\ result.timestamp > StartTime
    /\ blob["current_track"] = TrackSnapshot(last_fetch.track, result.timestamp)

----------------------------------------------------------------------------
(* C23 *)

\* the request to the player endpoint timed out or failed (not a 401)
FetchFailed(cs) ==
    \E i \in DOMAIN cs : cs[i].fn = "get_current_track" /\ cs[i].out = "failed"

\* C23: a cycle whose track fetch times out or fails (not unauthorized) logs the
\* failure, does not call update_last_name_safe, and leaves current_last_name,
\* last_track_key and the recorded track snapshot as they were.
C23_TransientFetchFailureIsInert ==
    [][(CycleStep /\ FetchFailed(calls'))
          => /\ OneEntryAdded(ErrorsOf(blob), ErrorsOf(blob'), clock)
             /\ CallsTo(calls', {"update_last_name_safe"}) = {}
             /\ StateOf(blob').current_last_name = StateOf(blob).current_last_name
             /\ StateOf(blob').last_track_key = StateOf(blob).last_track_key
             /\ Has(blob', "current_track") = Has(blob, "current_track")
             /\ Has(blob, "current_track")
                   => blob'["current_track"] = blob["current_track"]]_vars

----------------------------------------------------------------------------
(* C24 *)

\* the sections an invocation put to the blob
Written(ws) == {ws[i] : i \in DOMAIN ws}

\* C24: when invocations are served by different instances, a section that the
\* previous invocation wrote and the next one does not write still holds the value
\* the previous one gave it after the next one has finished.
C24_OtherInstancesWritesSurvive ==
    [][CycleStep
          => \A section \in Written(writes) \ Written(writes') :
                /\ Has(blob', section)
                /\ blob'[section] = blob[section]]_vars

\* C25: whatever the calls of log_error so far, the error log holds the ten most recent
\* of the entries they logged, newest first, and the status endpoint returns the newest
\* five.
C25_ErrorLogKeepsNewestTen ==
    /\ Len(ErrorsOf(blob)) <= 10
    /\ ErrorsOf(blob) = Take(logged, 10)
    /\ status_errors([blob |-> blob, cache |-> cache_data, ctime |-> cache_time,
                      url |-> blob_url_cache, wr |-> <<>>, lg |-> logged,
               vs |-> <<>>], clock, World)
           = Take(logged, 5)

EndsWith(s, p) == Len(s) >= Len(p) /\ SubSeq(s, Len(s) - Len(p) + 1, Len(s)) = p

\* the call of format_last_name has returned
Formatted == returned.fn = "format_last_name"

\* what format_last_name returns for the given arguments when nothing is cut
Untruncated == format_last_name(given.track, given.fallback, given.template, 0)

\* C26: for every truncate length above 0, 1 and 2 included, format_last_name returns
\* at most that many characters, and a result that had to be cut ends with "...".
C26_NeverLongerThanTruncate ==
    (Formatted /\ given.truncate > 0)
        => /\ Len(returned.value) <= given.truncate
           /\ (Len(Untruncated) > given.truncate => EndsWith(returned.value, ELLIPSIS))

\* C27: for a track that is absent or invalid format_last_name returns the fallback
\* unchanged, whatever the fallback, the template and the truncate length.
C27_FallbackVerbatim ==
    (Formatted /\ ~TrackTruthy(given.track)) => returned.value = given.fallback

\* the call of generate_track_key has returned
KeyGenerated == returned.fn = "generate_track_key"

\* C28: generate_track_key returns "stopped" for an absent track and for one without
\* title or artist; valid tracks whose titles are the same title with different
\* parenthetical segments get one key, "track:" and that title trimmed and lower-cased.
C28_KeyIgnoresParentheticals ==
    KeyGenerated
        => returned.value = IF TrackTruthy(given.track)
                            THEN TRACK_PREFIX \o Lower(PlainTitle)
                            ELSE STOPPED_KEY

\* no update has been recorded yet
FirstEver(b) == StateOf(b).last_track_key = NoneKey /\ StateOf(b).update_count = 0

\* every call this invocation made to the Profile Updater succeeded
ProfileUpdaterWorked(cs) == \A i \in CallsTo(cs, ProfileUpdaterFns) : cs[i].out = "ok"

KEY_OF_A == <<"t", "r", "a", "c", "k", ":", "a">>

\* C29: a cycle that starts with no recorded update (no last_track_key, update_count
\* 0), is given a playing track and finds the Profile Updater working ends as
\* "updated" with update_count 1 and the key of the track as last_track_key, at
\* whatever time it runs.
C29_FirstCycleUpdates ==
    [][(/\ CycleStep
        /\ FirstEver(blob)
        /\ last_fetch'.returned
        /\ TrackTruthy(last_fetch'.track)
        /\ ProfileUpdaterWorked(calls'))
          => /\ result'.success
             /\ result'.action = "updated"
             /\ StateOf(blob').update_count = 1
             /\ StateOf(blob').last_track_key = KEY_OF_A
             /\ UpdateEnded(calls', "ok")]_vars

\* the first update is made by a second cycle, 179 s after a first one that failed
C29_Witness ==
    /\ cycles = 2
    /\ clock = StartTime + 179
    /\ result.action = "updated"
    /\ UpdateEnded(calls, "ok")
    /\ last_fetch.track = TrackA2
    /\ StateOf(blob).update_count = 1
    /\ StateOf(blob).last_update = clock
    /\ StateOf(blob).last_track_key = KEY_OF_A

\* the track fetch of this invocation returned that nothing is playing, and the
\* invocation went on to compute the desired name
StoppedPlaying(fetch, d) == fetch.returned /\ ~TrackTruthy(fetch.track) /\ d.reached

\* C30: in a cycle that finds the track stopped after an earlier update the desired
\* name is the stored original_last_name; if that differs from current_last_name, the
\* update is due and the Profile Updater works, the cycle ends as "updated" with
\* current_last_name the baseline and last_track_key "stopped".
C30_StopRestoresBaseline ==
    [][(/\ CycleStep
        /\ StateOf(blob).update_count > 0
        /\ StoppedPlaying(last_fetch', decision'))
          => /\ decision'.desired_name = StateOf(blob).original_last_name
             /\ (/\ StateOf(blob).original_last_name # StateOf(blob).current_last_name
                 /\ decision'.eligible
                 /\ ProfileUpdaterWorked(calls'))
                   => /\ result'.action = "updated"
                      /\ StateOf(blob').current_last_name
                            = StateOf(blob).original_last_name
                      /\ StateOf(blob').last_track_key = STOPPED_KEY]_vars

\* this step is one invocation of an initialization entrypoint
InitStep == inits' = inits + 1

\* C31: an initialization that finds original_last_name already captured leaves it as
\* it is, also when a sync cycle has put a track on the live name in between.
C31_InitKeepsBaseline ==
    [][(InitStep /\ StateOf(blob).original_last_name # <<>>)
          => StateOf(blob').original_last_name = StateOf(blob).original_last_name]_vars

SyncEntries == {"api/sync.py", "index.py /api/sync"}

\* this step handles a trigger request on a sync entrypoint
TriggerStep == request'.entry \in SyncEntries /\ (request' # request \/ CycleStep)

\* C32: with a trigger secret configured, a trigger request whose Authorization header
\* is not exactly "Bearer <secret>" is answered 401 on every sync entrypoint, runs no
\* cycle, makes no external call and writes nothing; with no secret configured every
\* trigger request runs a cycle.
C32_TriggerNeedsSecret ==
    [][TriggerStep
          => IF request.secret # "" /\ request'.header # "Bearer " \o request.secret
             THEN /\ request'.code = 401
                  /\ ~CycleStep
                  /\ UNCHANGED <<blob, calls, writes, remote_last_name, issued, logged>>
             ELSE request'.code = 200 /\ CycleStep]_vars

\* the sync-state fields that one update changes together
UpdateFields(b) ==
    LET state == StateOf(b)
    IN  <<state.current_last_name, state.last_track_key, state.last_update,
          state.update_count, state.status>>

\* C33: each record a cycle puts to the blob, which is what a crash right after that
\* put leaves behind, has current_last_name, last_track_key, last_update, update_count
\* and status either all as before the cycle or all as after it.
C33_UpdateFieldsNeverMixed ==
    [][CycleStep
          => \A i \in DOMAIN versions' :
                \/ UpdateFields(versions'[i]) = UpdateFields(blob)
                \/ UpdateFields(versions'[i]) = UpdateFields(blob')]_vars

\* the first updating cycle put the record three times: tokens and track snapshot with
\* the five fields still at their defaults, then the sync state with all five changed
C33_Witness ==
    /\ cycles = 1
    /\ result.action = "updated"
    /\ writes = <<"spotify_tokens", "current_track", "sync_state">>
    /\ Len(versions) = 3
    /\ versions[3] = blob
    /\ UpdateFields(versions[1]) = UpdateFields(Empty)
    /\ UpdateFields(versions[2]) = UpdateFields(Empty)
    /\ \A i \in 1..5 : UpdateFields(versions[2])[i] # UpdateFields(versions[3])[i]

\* the last invocation made a successful Profile Updater update
Updated(cs) == UpdateEnded(cs, "ok")

\* C34: a successful update that follows an earlier successful update comes at least
\* 60 s after it, and at least 180 s after it when both carry the same track key.
C34_UpdatesSpacedApart ==
    [][(CycleStep /\ Updated(calls') /\ StateOf(blob).update_count > 0)
          => /\ Updated(calls) => StateOf(blob).last_update = result.timestamp
             /\ clock - StateOf(blob).last_update >= 60
             /\ decision'.track_key = StateOf(blob).last_track_key
                   => clock - StateOf(blob).last_update >= 180]_vars

\* what the player may keep doing
Playbacks == {NoTrack, TrackA, TrackA2}

\* the name perform_sync wants for playback p, given the record b
DesiredFor(p, b) ==
    format_last_name(p, StateOf(b).original_last_name, DEFAULT_TEMPLATE, DEFAULT_TRUNCATE)

\* from the second cycle on the track fetch returns p
StaysFixed(p) == cycles >= 2 => last_fetch = Fetched(p)

\* the recorded name is the desired one and the last cycle left the profile alone
Settled(p) ==
    /\ StateOf(blob).current_last_name = DesiredFor(p, blob)
    /\ result.action = "skipped"
    /\ CallsTo(calls, {"update_last_name_safe"}) = {}

\* C35: when playback stays fixed and the collaborators keep succeeding, periodic
\* triggering brings current_last_name to the desired name of that playback, and a
\* cycle that starts from there with the same playback ends as "skipped" without an
\* update call.
C35_SettlesOnFixedPlayback ==
    /\ \A p \in Playbacks : []StaysFixed(p) => <>[]Settled(p)
    /\ [][(/\ CycleStep
           /\ last_fetch' = last_fetch
           /\ last_fetch.returned
           /\ StateOf(blob).current_last_name = DesiredFor(last_fetch.track, blob))
             => /\ result'.action = "skipped"
                /\ CallsTo(calls', {"update_last_name_safe"}) = {}
                /\ StateOf(blob').current_last_name
                      = DesiredFor(last_fetch.track, blob')]_vars

\* the track changed to one with the same key after the first cycle; the rename waited
\* 180 s and the cycle after it was skipped
C35_Witness ==
    /\ cycles = 5
    /\ last_fetch = Fetched(TrackA2)
    /\ StateOf(blob).update_count = 2
    /\ StateOf(blob).last_update = StartTime + 3 * Period
    /\ Settled(TrackA2)

\* this step is one invocation of perform_sync or of an initialization entrypoint
InvocationStep == CycleStep \/ InitStep

\* the record in the blob before the i-th put of the invocation that made the puts vs
Before(b, vs, i) == IF i = 1 THEN b ELSE vs[i - 1]

\* C36: each put of an invocation changes only the section it writes: every other
\* section of the record is in the blob afterwards with the value it had before, also
\* when the load before the write failed or returned nothing.
C36_WriteLeavesOtherSections ==
    [][InvocationStep
          => \A i \in DOMAIN versions' :
                \A section \in DOMAIN Before(blob, versions', i) \ {writes'[i]} :
                    /\ Has(versions'[i], section)
                    /\ versions'[i][section] = Before(blob, versions', i)[section]]_vars

\* the positions of the token refresh calls of an invocation
RefreshCalls(cs) == CallsTo(cs, {"refresh_access_token"})

\* C37: a cycle that refreshes twice, first because the stored token is within 300 s
\* of expiry and again after an unauthorized track fetch, passes to the second refresh
\* the refresh token the first one returned: the rotated one when the provider
\* rotated it, the same one otherwise.
C37_RefreshUsesLatestToken ==
    [][CycleStep
          => \A i, j \in RefreshCalls(calls') :
                i < j => calls'[j].arg = IF calls'[i].out = "rotated"
                                         THEN issued + 1
                                         ELSE calls'[i].arg]_vars

----------------------------------------------------------------------------
(* C38 *)

\* the text the cycle logs when an update fails for a reason it cannot name
UnknownUpdateError == "Unknown update error"

\* C38: whenever update_last_name_safe reports a rate limit of r seconds, for every
\* r >= 0 and r = 0 included, the cycle returns rate_limited with a cooldown recorded
\* that ends after now, and the head of the error log is not the entry of an unknown
\* update failure.
C38_RateLimitNeverUnknown ==
    [][(CycleStep /\ UpdateEnded(calls', "flood"))
          => /\ result'.action = "rate_limited"
             /\ FloodOf(blob') >= clock + UpdateCall(calls').n
             /\ ErrorsOf(blob') # <<>>
             /\ ErrorsOf(blob')[1].error # UnknownUpdateError]_vars

----------------------------------------------------------------------------
(* C39 *)

\* C39: the in-process cache does not diverge from the store. After an invocation the
\* cache, when it holds a record, holds the record in the blob; and a state dict that
\* was changed and not saved is not put by a write of another section: every put that
\* writes a section other than sync_state carries the sync_state persisted before it.
C39_CacheNeverDiverges ==
    [][InvocationStep
          => /\ cache_data' # Empty => cache_data' = blob'
             /\ \A i \in DOMAIN versions' :
                   writes'[i] # "sync_state"
                      => StateOf(versions'[i])
                            = StateOf(Before(blob, versions', i))]_vars

----------------------------------------------------------------------------
(* C40 *)

\* C40: whenever the recorded update_count is greater than 0, the recorded
\* current_last_name is the name passed to the most recent successful update, which
\* is the last name of the remote profile.
C40_RecordedNameIsRemoteName ==
    StateOf(blob).update_count > 0
        => StateOf(blob).current_last_name = remote_last_name

====
